---- MODULE Spec2Model ----
(***************************************************************************)
(* A model of camlistore's schema package (pkg/schema/schema.go): the     *)
(* camli map builders and MapToCamliJSON, PopulateParts, the StaticSet    *)
(* accumulator and the DirectoryEntry resolver.                           *)
(*                                                                         *)
(* Go maps (map[string]interface{}) are TLA+ functions whose domain is    *)
(* the set of keys present.  A key always carries values of one shape, so *)
(* two maps can be compared.  A *blobref.BlobRef is a record; the nil     *)
(* pointer is NilRef.  Errors are strings; the nil error is ErrNil.       *)
(***************************************************************************)
EXTENDS Integers, Sequences, FiniteSets, TLC

VARIABLES
    m,          \* the camli map the caller holds (map[string]interface{})
    origin,     \* which builder made m ("caller" for a map built by hand)
    call,       \* the last call on m: its arguments, the map before, its results
    panicked,   \* TRUE once a builder has panicked (the process is gone)
    \* A StaticSet shared by goroutines:
    l,          \* ss.l: the goroutine that holds the mutex, or NoHolder
    refs,       \* ss.refs
    pc,         \* where each goroutine stands in its Add or Map call
    slice,      \* per goroutine: the ss.refs it read (Add) or the members it built (Map)
    mapLog,     \* the Map calls that returned, in order of return
    acquired,   \* the adding goroutines in the order they took the mutex
    atLock,     \* per mapping goroutine: what held when it took the mutex
    \* A DirectoryEntry and the Superset of its caller:
    ss,         \* the caller's Superset
    heap,       \* the backing arrays of []interface{} slices, by address
    de,         \* the dirEntry NewDirectoryEntry returned (or the nil entry)
    ret,        \* what the last call on the entry returned
    atNew,      \* what the accessors returned when the entry was built
    mutations,  \* how often the caller changed its Superset since
    \* Goroutines calling File, Directory and Symlink on the entry:
    at,         \* per goroutine: the call it is in and the statement it stands at
    local,      \* per goroutine: the local fr / dr and what held when the call began
    made,       \* how many FileReaders / DirReaders have been constructed
    done,       \* the calls that returned, in order of return
    \* One object under a sequence of calls:
    fn,         \* the function or method called last
    args,       \* its arguments
    result,     \* what it returned
    obj         \* the receiver after the call (a reader's cursor and contents)

mapVars == <<m, origin, call, panicked>>

setVars == <<l, refs, pc, slice, mapLog, acquired, atLock>>

entryVars == <<ss, heap, de, ret, atNew, mutations>>

lazyVars == <<at, local, made, done>>

callVars == <<fn, args, result, obj>>

vars == <<mapVars, setVars, entryVars, lazyVars, callVars>>

----------------------------------------------------------------------------
(* Bounds *)

\* Width, in bits, of the model's uint64 / int64 (scaled down from 64).
WordBits == 16

\* Longest parts list handed to PopulateParts.
MaxParts == 2

----------------------------------------------------------------------------
(* Go maps *)

EmptyMap == [k \in {} |-> 0]

HasKey(mp, k) == k \in DOMAIN mp

MapSet(mp, k, v) == [x \in (DOMAIN mp) \cup {k} |-> IF x = k THEN v ELSE mp[x]]

MapDelete(mp, k) == [x \in (DOMAIN mp) \ {k} |-> mp[x]]

----------------------------------------------------------------------------
(* blobref.BlobRef *)

NilRef == [hash |-> "", digest |-> ""]

RefA == [hash |-> "sha1", digest |-> "aaaa"]

RefB == [hash |-> "sha1", digest |-> "bbbb"]

RefC == [hash |-> "sha1", digest |-> "cccc"]

\* The canonical string form of a blobref, "algo-digest".
BlobRefString(ref) == ref.hash \o "-" \o ref.digest

----------------------------------------------------------------------------
(* Errors *)

ErrNil == "nil"

ErrNoCamliVersion == "schema: no camliVersion key in map"

ErrBothRefs == "schema: part contains both blobRef and bytesRef"

ErrSizeMismatch == "schema: declared size doesn't match sum of parts size"

----------------------------------------------------------------------------
(* Fixed-width integers *)

TwoToW == 2 ^ WordBits

MaxInt64 == (TwoToW \div 2) - 1

MinInt64 == 0 - (TwoToW \div 2)

\* Go's int64(u) for a uint64 u: the same bits read as two's complement.
ToInt64(u) == IF u > MaxInt64 THEN u - TwoToW ELSE u

\* Go's int64 addition, which wraps around silently.
AddInt64(a, b) == ((a + b - MinInt64) % TwoToW) + MinInt64

----------------------------------------------------------------------------
(* BytesPart and PopulateParts *)

BytesPart(size, blobRef, bytesRef, offset) ==
    [Size |-> size, BlobRef |-> blobRef, BytesRef |-> bytesRef, Offset |-> offset]

\* PartMap with the "offset" key written unconditionally.
PartMap_AlwaysOffset(part) ==
    LET withRef == IF part.BlobRef # NilRef
                   THEN MapSet(EmptyMap, "blobRef", BlobRefString(part.BlobRef))
                   ELSE IF part.BytesRef # NilRef
                        THEN MapSet(EmptyMap, "bytesRef", BlobRefString(part.BytesRef))
                        ELSE EmptyMap
    IN  MapSet(MapSet(withRef, "size", part.Size), "offset", part.Offset)

\* One iteration of the loop body of PopulateParts after the conflict test:
\* the serialized form of one part.
PartMap(part) ==
    LET withRef == IF part.BlobRef # NilRef
                   THEN MapSet(EmptyMap, "blobRef", BlobRefString(part.BlobRef))
                   ELSE IF part.BytesRef # NilRef
                        THEN MapSet(EmptyMap, "bytesRef", BlobRefString(part.BytesRef))
                        ELSE EmptyMap
        withSize == MapSet(withRef, "size", part.Size)
    IN  IF part.Offset # 0 THEN MapSet(withSize, "offset", part.Offset) ELSE withSize

\* PartsLoop with the switch cases in the wrong order: a part with both
\* references is taken for a blobRef part.
RECURSIVE PartsLoop_BlobRefFirst(_, _, _, _)
PartsLoop_BlobRefFirst(parts, idx, sumSize, mparts) ==
    IF idx > Len(parts)
    THEN [err |-> ErrNil, sumSize |-> sumSize, mparts |-> mparts]
    ELSE PartsLoop_BlobRefFirst(parts, idx + 1,
                                AddInt64(sumSize, ToInt64(parts[idx].Size)),
                                Append(mparts, PartMap(parts[idx])))

\* The for loop of PopulateParts from index idx on: the error of the early
\* return (or ErrNil), the accumulated int64 sum and the parts built.
RECURSIVE PartsLoop(_, _, _, _)
PartsLoop(parts, idx, sumSize, mparts) ==
    IF idx > Len(parts)
    THEN [err |-> ErrNil, sumSize |-> sumSize, mparts |-> mparts]
    ELSE LET part == parts[idx]
         IN  IF part.BlobRef # NilRef /\ part.BytesRef # NilRef
             THEN [err |-> ErrBothRefs, sumSize |-> sumSize, mparts |-> mparts]
             ELSE PartsLoop(parts, idx + 1,
                            AddInt64(sumSize, ToInt64(part.Size)),
                            Append(mparts, PartMap(part)))

\* PopulateParts storing m["parts"] before it compares the sizes.
PopulateParts_StoreFirst(mp, size, parts) ==
    LET loop == PartsLoop(parts, 1, 0, <<>>)
    IN  IF loop.err # ErrNil
        THEN [m |-> mp, err |-> loop.err]
        ELSE IF loop.sumSize # size
             THEN [m |-> MapSet(mp, "parts", loop.mparts), err |-> ErrSizeMismatch]
             ELSE [m |-> MapSet(mp, "parts", loop.mparts), err |-> ErrNil]

\* PopulateParts(m, size, parts): the map afterwards and the error returned.
PopulateParts(mp, size, parts) ==
    LET loop == PartsLoop(parts, 1, 0, <<>>)
    IN  IF loop.err # ErrNil
        THEN [m |-> mp, err |-> loop.err]
        ELSE IF loop.sumSize # size
             THEN [m |-> mp, err |-> ErrSizeMismatch]
             ELSE [m |-> MapSet(mp, "parts", loop.mparts), err |-> ErrNil]

----------------------------------------------------------------------------
(* Go strings as byte sequences, base64, UTF-8, filepath.Base *)

\* The characters of the bytes the model's file names use.
ByteChar(b) ==
    CASE b = 46  -> "."
      [] b = 47  -> "/"
      [] b = 72  -> "H"
      [] b = 88  -> "X"
      [] b = 97  -> "a"
      [] b = 98  -> "b"
      [] b = 105 -> "i"
      [] OTHER   -> "?"

\* The text of a Go string given as its bytes.
RECURSIVE GoText(_)
GoText(bytes) ==
    IF bytes = <<>> THEN "" ELSE ByteChar(Head(bytes)) \o GoText(Tail(bytes))

Base64Alphabet == "ABCDEFGHIJKLMNOPQRSTUVWXYZabcdefghijklmnopqrstuvwxyz0123456789+/"

Base64Char(i) == SubSeq(Base64Alphabet, i + 1, i + 1)

\* base64.StdEncoding.EncodeToString: three bytes become four characters,
\* the last group is padded with "=".
RECURSIVE Base64(_)
Base64(bytes) ==
    IF Len(bytes) = 0 THEN ""
    ELSE IF Len(bytes) = 1
    THEN Base64Char(bytes[1] \div 4) \o Base64Char((bytes[1] % 4) * 16) \o "=="
    ELSE IF Len(bytes) = 2
    THEN Base64Char(bytes[1] \div 4)
             \o Base64Char((bytes[1] % 4) * 16 + bytes[2] \div 16)
             \o Base64Char((bytes[2] % 16) * 4) \o "="
    ELSE Base64Char(bytes[1] \div 4)
             \o Base64Char((bytes[1] % 4) * 16 + bytes[2] \div 16)
             \o Base64Char((bytes[2] % 16) * 4 + bytes[3] \div 64)
             \o Base64Char(bytes[3] % 64)
             \o Base64(SubSeq(bytes, 4, Len(bytes)))

IsCont(bytes, i) == i <= Len(bytes) /\ bytes[i] >= 128 /\ bytes[i] <= 191

InRange(bytes, i, lo, hi) == i <= Len(bytes) /\ bytes[i] >= lo /\ bytes[i] <= hi

\* utf8.ValidString from the i-th byte on.
RECURSIVE ValidUTF8From(_, _)
ValidUTF8From(bytes, i) ==
    IF i > Len(bytes) THEN TRUE
    ELSE LET b == bytes[i]
         IN  IF b < 128 THEN ValidUTF8From(bytes, i + 1)
             ELSE IF b >= 194 /\ b <= 223
             THEN IsCont(bytes, i + 1) /\ ValidUTF8From(bytes, i + 2)
             ELSE IF b >= 224 /\ b <= 239
             THEN /\ InRange(bytes, i + 1, IF b = 224 THEN 160 ELSE 128,
                                           IF b = 237 THEN 159 ELSE 191)
                  /\ IsCont(bytes, i + 2)
                  /\ ValidUTF8From(bytes, i + 3)
             ELSE IF b >= 240 /\ b <= 244
             THEN /\ InRange(bytes, i + 1, IF b = 240 THEN 144 ELSE 128,
                                           IF b = 244 THEN 143 ELSE 191)
                  /\ IsCont(bytes, i + 2)
                  /\ IsCont(bytes, i + 3)
                  /\ ValidUTF8From(bytes, i + 4)
             ELSE FALSE

ValidString(bytes) == ValidUTF8From(bytes, 1)

Slash == 47

RECURSIVE StripTrailingSlashes(_)
StripTrailingSlashes(path) ==
    IF Len(path) > 0 /\ path[Len(path)] = Slash
    THEN StripTrailingSlashes(SubSeq(path, 1, Len(path) - 1))
    ELSE path

\* The part of path after its last slash.
RECURSIVE AfterLastSlash(_)
AfterLastSlash(path) ==
    IF \E i \in 1..Len(path) : path[i] = Slash
    THEN AfterLastSlash(Tail(path))
    ELSE path

\* filepath.Base on a Unix path.
FilepathBase(path) ==
    IF path = <<>> THEN <<46>>
    ELSE LET last == AfterLastSlash(StripTrailingSlashes(path))
         IN  IF last = <<>> THEN <<Slash>> ELSE last

----------------------------------------------------------------------------
(* encoding/json as MapToCamliJSON uses it *)

ErrUnsupportedType == "json: unsupported type"

\* Every key the model's maps use, in the byte-wise order in which
\* encoding/json writes the keys of a map.
KeyOrder ==
    << "attribute", "authType", "blobRef", "bytesRef", "callback",
       "camliSigner", "camliType", "camliVersion", "claimDate", "claimType",
       "entries", "fileName", "fileNameBytes", "members", "offset", "parts",
       "permaNode", "random", "size", "target", "transitive", "value" >>

IntKeys == {"camliVersion", "size", "offset"}

BoolKeys == {"transitive"}

StringListKeys == {"members"}

MapListKeys == {"parts"}

\* Keys that hold a []uint8, which json writes as a base64 string.
BytesKeys == {"fileNameBytes"}

\* Keys that hold a Go string kept as its sequence of bytes.
ByteStringKeys == {"fileName"}

\* Keys under which the caller stored a value json cannot encode (a func).
FuncKeys == {"callback"}

\* The keys of mp in the order json writes them.
SortedKeys(mp) == SelectSeq(KeyOrder, LAMBDA k : k \in DOMAIN mp)

Quote(s) == "\"" \o s \o "\""

RECURSIVE IndentText(_)
IndentText(depth) == IF depth = 0 THEN "" ELSE "  " \o IndentText(depth - 1)

\* json's Marshal fails on a map that holds a value of an unsupported type.
Marshalable(mp) == DOMAIN mp \cap FuncKeys = {}

RECURSIVE MarshalObject(_, _)
RECURSIVE MarshalValue(_, _, _)
RECURSIVE MarshalItems(_, _, _, _)
RECURSIVE MarshalMembers(_, _, _)

\* The "key": value lines of an object, from the i-th sorted key on.
MarshalMembers(mp, i, depth) ==
    LET keys == SortedKeys(mp)
        line == IndentText(depth) \o Quote(keys[i]) \o ": "
                    \o MarshalValue(keys[i], mp[keys[i]], depth)
    IN  IF i = Len(keys) THEN line
        ELSE line \o ",\n" \o MarshalMembers(mp, i + 1, depth)

\* The elements of an array stored under key k, from the i-th on.
MarshalItems(k, items, i, depth) ==
    LET item == IndentText(depth)
                    \o (IF k \in MapListKeys THEN MarshalObject(items[i], depth)
                        ELSE Quote(items[i]))
    IN  IF i = Len(items) THEN item
        ELSE item \o ",\n" \o MarshalItems(k, items, i + 1, depth)

MarshalValue(k, v, depth) ==
    IF k \in IntKeys THEN ToString(v)
    ELSE IF k \in BoolKeys THEN (IF v THEN "true" ELSE "false")
    ELSE IF k \in StringListKeys \cup MapListKeys
         THEN IF Len(v) = 0 THEN "[]"
              ELSE "[\n" \o MarshalItems(k, v, 1, depth + 1)
                         \o "\n" \o IndentText(depth) \o "]"
    ELSE IF k \in BytesKeys THEN Quote(Base64(v))
    ELSE IF k \in ByteStringKeys THEN Quote(GoText(v))
    ELSE Quote(v)

\* The text of an object whose opening brace stands at nesting depth `depth`.
MarshalObject(mp, depth) ==
    IF DOMAIN mp = {} THEN "{}"
    ELSE "{\n" \o MarshalMembers(mp, 1, depth + 1) \o "\n" \o IndentText(depth) \o "}"

\* json.MarshalIndent(m, "", "  "): the bytes and the error.
MarshalIndent(mp) ==
    IF Marshalable(mp)
    THEN [bytes |-> MarshalObject(mp, 0), err |-> ErrNil]
    ELSE [bytes |-> "", err |-> ErrUnsupportedType]

\* MapToCamliJSON reporting a marshalling failure as ErrNoCamliVersion.
MapToCamliJSON_OneError(mp) ==
    IF ~HasKey(mp, "camliVersion")
    THEN [out |-> "", err |-> ErrNoCamliVersion, m |-> mp]
    ELSE LET version == mp["camliVersion"]
             deleted == MapDelete(mp, "camliVersion")
             js      == MarshalIndent(deleted)
         IN  IF js.err # ErrNil
             THEN [out |-> "", err |-> ErrNoCamliVersion, m |-> deleted]
             ELSE [out |-> "{\"camliVersion\": " \o ToString(version) \o ",\n"
                              \o SubSeq(js.bytes, 3, Len(js.bytes)),
                   err |-> ErrNil,
                   m   |-> MapSet(deleted, "camliVersion", version)]

\* MapToCamliJSON(m): the string and error returned and the map afterwards.
MapToCamliJSON(mp) ==
    IF ~HasKey(mp, "camliVersion")
    THEN [out |-> "", err |-> ErrNoCamliVersion, m |-> mp]
    ELSE LET version == mp["camliVersion"]
             deleted == MapDelete(mp, "camliVersion")
             js      == MarshalIndent(deleted)
         IN  IF js.err # ErrNil
             THEN [out |-> "", err |-> js.err, m |-> deleted]
             ELSE [out |-> "{\"camliVersion\": " \o ToString(version) \o ",\n"
                              \o SubSeq(js.bytes, 3, Len(js.bytes)),
                   err |-> ErrNil,
                   m   |-> MapSet(deleted, "camliVersion", version)]

----------------------------------------------------------------------------
(* Timestamps *)

\* A time.Time, held as its UTC calendar fields and nanoseconds.
Time(year, month, day, hour, minute, second, nsec) ==
    [year |-> year, month |-> month, day |-> day, hour |-> hour,
     minute |-> minute, second |-> second, nsec |-> nsec]

Pad2(n) == IF n < 10 THEN "0" \o ToString(n) ELSE ToString(n)

Pad4(n) == IF n < 10 THEN "000" \o ToString(n)
           ELSE IF n < 100 THEN "00" \o ToString(n)
           ELSE IF n < 1000 THEN "0" \o ToString(n)
           ELSE ToString(n)

\* n written with exactly `width` digits.
RECURSIVE PadDigits(_, _)
PadDigits(n, width) ==
    IF width = 0 THEN "" ELSE PadDigits(n \div 10, width - 1) \o ToString(n % 10)

\* The digits of the fraction n (non-zero, of `width` digits), trailing
\* zeros dropped, as the layout ".999999999" prints them.
RECURSIVE FracDigits(_, _)
FracDigits(n, width) ==
    IF n % 10 = 0 THEN FracDigits(n \div 10, width - 1) ELSE PadDigits(n, width)

\* t.UTC().Format("2006-01-02T15:04:05Z07:00")
FormatRFC3339(t) ==
    Pad4(t.year) \o "-" \o Pad2(t.month) \o "-" \o Pad2(t.day) \o "T"
        \o Pad2(t.hour) \o ":" \o Pad2(t.minute) \o ":" \o Pad2(t.second) \o "Z"

\* t.UTC().Format("2006-01-02T15:04:05.999999999Z07:00")
FormatRFC3339Nano(t) ==
    Pad4(t.year) \o "-" \o Pad2(t.month) \o "-" \o Pad2(t.day) \o "T"
        \o Pad2(t.hour) \o ":" \o Pad2(t.minute) \o ":" \o Pad2(t.second)
        \o (IF t.nsec = 0 THEN "" ELSE "." \o FracDigits(t.nsec, 9)) \o "Z"

\* RFC3339FromTime that never prints the fraction.
RFC3339FromTime_NoFraction(t) == FormatRFC3339(t)

RFC3339FromTime(t) ==
    IF t.nsec = 0 THEN FormatRFC3339(t) ELSE FormatRFC3339Nano(t)

\* An int64 count of nanoseconds since 1970-01-01T00:00:00Z, held as whole
\* days, seconds of the day and nanoseconds of the second: its value is
\* (days * 86400 + sec) * 10^9 + nsec.
Nanos(days, sec, nsec) == [days |-> days, sec |-> sec, nsec |-> nsec]

\* The int64 -1.
MinusOne == Nanos(-1, 86399, 999999999)

\* The days from 1970-01-01 to the day of the proleptic Gregorian calendar.
DaysFromCivil(year, month, day) ==
    LET y   == IF month <= 2 THEN year - 1 ELSE year
        era == y \div 400
        yoe == y - era * 400
        mp  == IF month > 2 THEN month - 3 ELSE month + 9
        doy == (153 * mp + 2) \div 5 + day - 1
        doe == yoe * 365 + yoe \div 4 - yoe \div 100 + doy
    IN  era * 146097 + doe - 719468

\* The calendar day that lies z days after 1970-01-01.
CivilFromDays(z) ==
    LET shifted == z + 719468
        era == shifted \div 146097
        doe == shifted - era * 146097
        yoe == (doe - doe \div 1460 + doe \div 36524 - doe \div 146096) \div 365
        doy == doe - (365 * yoe + yoe \div 4 - yoe \div 100)
        mp  == (5 * doy + 2) \div 153
        month == IF mp < 10 THEN mp + 3 ELSE mp - 9
    IN  [year |-> yoe + era * 400 + (IF month <= 2 THEN 1 ELSE 0),
         month |-> month,
         day |-> doy - (153 * mp + 2) \div 5 + 1]

\* The time.Time of the instant n, in UTC.
TimeOfNanos(n) ==
    LET date == CivilFromDays(n.days)
    IN  Time(date.year, date.month, date.day,
             n.sec \div 3600, (n.sec % 3600) \div 60, n.sec % 60, n.nsec)

\* t.UnixNano(), for a time `offset` seconds east of UTC.
UnixNano(t, offset) ==
    LET secs == t.hour * 3600 + t.minute * 60 + t.second - offset
    IN  Nanos(DaysFromCivil(t.year, t.month, t.day) + secs \div 86400,
              secs % 86400, t.nsec)

\* The value of a decimal digit, -1 for any other character.
DigitValue(ch) ==
    IF \E d \in 0..9 : ToString(d) = ch
    THEN CHOOSE d \in 0..9 : ToString(d) = ch
    ELSE -1

IsDigitAt(text, i) == i <= Len(text) /\ DigitValue(SubSeq(text, i, i)) >= 0

\* The number written by the digits text[from..to]; -1 if one is no digit.
RECURSIVE Number(_, _, _)
Number(text, from, to) ==
    IF to < from THEN 0
    ELSE IF ~IsDigitAt(text, to) THEN -1
    ELSE LET high == Number(text, from, to - 1)
         IN  IF high < 0 THEN -1 ELSE high * 10 + DigitValue(SubSeq(text, to, to))

\* The last of the digits that follow position i without a gap (i if none).
RECURSIVE DigitsEnd(_, _)
DigitsEnd(text, i) == IF IsDigitAt(text, i + 1) THEN DigitsEnd(text, i + 1) ELSE i

RECURSIVE Power10(_)
Power10(n) == IF n = 0 THEN 1 ELSE 10 * Power10(n - 1)

ErrParse == "parsing time: cannot parse"

ZeroTime == Time(1, 1, 1, 0, 0, 0, 0)

\* time.Parse("2006-01-02T15:04:05Z07:00", text): the date and the time of
\* day, a fraction of a second where the text has one right after the
\* seconds (Parse accepts it though the layout has none), then "Z" or a
\* zone offset as +hh:mm or -hh:mm.
ParseRFC3339(text) ==
    LET failed == [err |-> ErrParse, t |-> ZeroTime, offset |-> 0]
        year   == Number(text, 1, 4)
        month  == Number(text, 6, 7)
        day    == Number(text, 9, 10)
        hour   == Number(text, 12, 13)
        minute == Number(text, 15, 16)
        second == Number(text, 18, 19)
        hasFrac == Len(text) >= 21 /\ SubSeq(text, 20, 20) = "." /\ IsDigitAt(text, 21)
        fracEnd == IF hasFrac THEN DigitsEnd(text, 20) ELSE 19
        fracLen == fracEnd - 20
        nsec   == IF ~hasFrac THEN 0
                  ELSE IF fracLen > 9 THEN Number(text, 21, 29)
                  ELSE Number(text, 21, fracEnd) * Power10(9 - fracLen)
        zone   == fracEnd + 1
        zulu   == Len(text) = zone /\ SubSeq(text, zone, zone) = "Z"
        zh     == Number(text, zone + 1, zone + 2)
        zm     == Number(text, zone + 4, zone + 5)
        offset == Len(text) = zone + 5
                  /\ SubSeq(text, zone, zone) \in {"+", "-"}
                  /\ SubSeq(text, zone + 3, zone + 3) = ":"
                  /\ zh >= 0 /\ zm >= 0
    IN  IF Len(text) < 20 THEN failed
        ELSE IF \/ SubSeq(text, 5, 5) # "-" \/ SubSeq(text, 8, 8) # "-"
                \/ SubSeq(text, 11, 11) # "T"
                \/ SubSeq(text, 14, 14) # ":" \/ SubSeq(text, 17, 17) # ":"
        THEN failed
        ELSE IF \/ year < 0 \/ month < 1 \/ month > 12 \/ day < 1 \/ day > 31
                \/ hour < 0 \/ hour > 23 \/ minute < 0 \/ minute > 59
                \/ second < 0 \/ second > 59
        THEN failed
        ELSE IF ~zulu /\ ~offset THEN failed
        ELSE [err |-> ErrNil,
              t |-> Time(year, month, day, hour, minute, second, nsec),
              offset |-> IF zulu THEN 0
                         ELSE (IF SubSeq(text, zone, zone) = "-" THEN -1 ELSE 1)
                                  * (zh * 3600 + zm * 60)]

NanosFromRFC3339(timestr) ==
    LET parsed == ParseRFC3339(timestr)
    IN  IF parsed.err # ErrNil THEN MinusOne
        ELSE UnixNano(parsed.t, parsed.offset)

----------------------------------------------------------------------------
(* The builders *)

newCamliMap(version, ctype) ==
    MapSet(MapSet(EmptyMap, "camliVersion", version), "camliType", ctype)

RandLen == 20

ErrRand == "unexpected EOF"

\* io.ReadFull(rand.Reader, chars): the bytes now in chars, and the error,
\* which is non-nil exactly when fewer than len(chars) bytes were read.
ReadFull(src, n) ==
    IF Len(src) >= n
    THEN [chars |-> SubSeq(src, 1, n), n |-> n, err |-> ErrNil]
    ELSE [chars |-> src \o [i \in 1..(n - Len(src)) |-> 0],
          n |-> Len(src), err |-> ErrRand]

\* NewUnsignedPermanode that does not look at the error of ReadFull.
NewUnsignedPermanode_IgnoreError(src) ==
    [panic |-> FALSE,
     m |-> MapSet(newCamliMap(1, "permanode"), "random",
                  Base64(ReadFull(src, RandLen).chars))]

\* NewUnsignedPermanode with the random source delivering src: the map
\* returned, or a panic.
NewUnsignedPermanode(src) ==
    LET rd == ReadFull(src, RandLen)
    IN  IF rd.err # ErrNil
        THEN [panic |-> TRUE, m |-> EmptyMap]
        ELSE [panic |-> FALSE,
              m |-> MapSet(newCamliMap(1, "permanode"), "random", Base64(rd.chars))]

RECURSIVE RefStrings(_)
RefStrings(rs) ==
    IF rs = <<>> THEN <<>>
    ELSE <<BlobRefString(Head(rs))>> \o RefStrings(Tail(rs))

\* The map StaticSet.Map builds from the refs it sees under the lock.
StaticSetMap(rs) ==
    MapSet(newCamliMap(1, "static-set"), "members", RefStrings(rs))

NewCommonFilenameMap(fileName) ==
    LET mp == newCamliMap(1, "")
    IN  IF fileName # <<>>
        THEN LET baseName == FilepathBase(fileName)
             IN  IF ValidString(baseName)
                 THEN MapSet(mp, "fileName", baseName)
                 ELSE MapSet(mp, "fileNameBytes", baseName)
        ELSE mp

NewFileMap(fileName) == MapSet(NewCommonFilenameMap(fileName), "camliType", "file")

NewBytes == newCamliMap(1, "bytes")

PopulateDirectoryMap(mp, staticSetRef) ==
    MapSet(MapSet(mp, "camliType", "directory"), "entries", BlobRefString(staticSetRef))

NewShareRef(authType, target, transitive) ==
    MapSet(MapSet(MapSet(newCamliMap(1, "share"), "authType", authType),
                  "target", BlobRefString(target)),
           "transitive", transitive)

NewClaim(permaNode, claimType, now) ==
    MapSet(MapSet(MapSet(newCamliMap(1, "claim"), "permaNode", BlobRefString(permaNode)),
                  "claimType", claimType),
           "claimDate", RFC3339FromTime(now))

newAttrChangeClaim(permaNode, claimType, attr, value, now) ==
    MapSet(MapSet(NewClaim(permaNode, claimType, now), "attribute", attr),
           "value", value)

NewSetAttributeClaim(permaNode, attr, value, now) ==
    newAttrChangeClaim(permaNode, "set-attribute", attr, value, now)

NewAddAttributeClaim(permaNode, attr, value, now) ==
    newAttrChangeClaim(permaNode, "add-attribute", attr, value, now)

\* NewDelAttributeClaim without the delete.
NewDelAttributeClaim_KeepsValue(permaNode, attr, now) ==
    newAttrChangeClaim(permaNode, "del-attribute", attr, "", now)

NewDelAttributeClaim(permaNode, attr, now) ==
    MapDelete(newAttrChangeClaim(permaNode, "del-attribute", attr, "", now), "value")

ShareHaveRef == "haveref"

----------------------------------------------------------------------------
(* StaticSet *)

\* Goroutines that each call Add once, with a reference of their own.
NumAdders == 3

\* Goroutines that each call Map once.
NumMappers == 2

Adders == 1..NumAdders

Mappers == (NumAdders + 1)..(NumAdders + NumMappers)

Goroutines == Adders \cup Mappers

NoHolder == 0

\* The reference goroutine a adds.
AdderRef(a) == [hash |-> "sha1", digest |-> "d" \o ToString(a)]

RECURSIVE AdderRefs(_)
AdderRefs(as) ==
    IF as = <<>> THEN <<>> ELSE <<AdderRef(Head(as))>> \o AdderRefs(Tail(as))

\* sync.Mutex.Lock returns only once no goroutine holds the mutex.
MutexFree_Always(holder) == TRUE

MutexFree(holder) == holder = NoHolder

\* append(s, ref) puts ref at the front.
AppendRef_Prepend(s, ref) == <<ref>> \o s

\* append(s, ref)
AppendRef(s, ref) == Append(s, ref)

\* Add: ss.l.Lock()
AddLock(a) ==
    /\ pc[a] = "start"
    /\ MutexFree(l)
    /\ l' = a
    /\ acquired' = Append(acquired, a)
    /\ pc' = [pc EXCEPT ![a] = "locked"]
    /\ UNCHANGED <<refs, slice, mapLog, atLock, mapVars, entryVars, lazyVars, callVars>>

\* Add: append(ss.refs, ref) reads ss.refs ...
AddRead(a) ==
    /\ pc[a] = "locked"
    /\ slice' = [slice EXCEPT ![a] = refs]
    /\ pc' = [pc EXCEPT ![a] = "appending"]
    /\ UNCHANGED <<l, refs, mapLog, acquired, atLock, mapVars, entryVars, lazyVars, callVars>>

\* ... and ss.refs = stores the longer slice.
AddWrite(a) ==
    /\ pc[a] = "appending"
    /\ refs' = AppendRef(slice[a], AdderRef(a))
    /\ pc' = [pc EXCEPT ![a] = "appended"]
    /\ UNCHANGED <<l, slice, mapLog, acquired, atLock, mapVars, entryVars, lazyVars, callVars>>

\* Add: the deferred ss.l.Unlock(), and the return.
AddUnlock(a) ==
    /\ pc[a] = "appended"
    /\ l' = NoHolder
    /\ pc' = [pc EXCEPT ![a] = "done"]
    /\ UNCHANGED <<refs, slice, mapLog, acquired, atLock, mapVars, entryVars, lazyVars, callVars>>

\* The adders whose append is complete, in the order they took the mutex.
Appended == SelectSeq(acquired, LAMBDA a : pc[a] \in {"appended", "done"})

\* Map: newCamliMap and ss.l.Lock().  Noted for the record: which appends
\* were complete, whether every Add had returned, and ss.refs.
MapLock(p) ==
    /\ pc[p] = "start"
    /\ MutexFree(l)
    /\ l' = p
    /\ atLock' = [atLock EXCEPT ![p] =
                     [appended |-> AdderRefs(Appended),
                      afterAll |-> \A a \in Adders : pc[a] = "done",
                      refs     |-> refs]]
    /\ pc' = [pc EXCEPT ![p] = "locked"]
    /\ UNCHANGED <<refs, slice, mapLog, acquired, mapVars, entryVars, lazyVars, callVars>>

\* Map: the loop that fills members from ss.refs.
MapMembers(p) ==
    /\ pc[p] = "locked"
    /\ slice' = [slice EXCEPT ![p] = RefStrings(refs)]
    /\ pc' = [pc EXCEPT ![p] = "built"]
    /\ UNCHANGED <<l, refs, mapLog, acquired, atLock, mapVars, entryVars, lazyVars, callVars>>

\* Map: m["members"] = members, the deferred ss.l.Unlock(), and the return.
MapUnlock(p) ==
    /\ pc[p] = "built"
    /\ l' = NoHolder
    /\ mapLog' = Append(mapLog,
                        [m        |-> MapSet(newCamliMap(1, "static-set"), "members", slice[p]),
                         appended |-> atLock[p].appended,
                         afterAll |-> atLock[p].afterAll,
                         refsAtLock   |-> atLock[p].refs,
                         refsAtReturn |-> refs])
    /\ pc' = [pc EXCEPT ![p] = "done"]
    /\ UNCHANGED <<refs, slice, acquired, atLock, mapVars, entryVars, lazyVars, callVars>>

NoneAtLock == [appended |-> <<>>, afterAll |-> FALSE, refs |-> <<>>]

\* A new StaticSet (refs is nil) and goroutines about to call into it.
InitSet ==
    /\ l = NoHolder
    /\ refs = <<>>
    /\ pc = [g \in Goroutines |-> "start"]
    /\ slice = [g \in Goroutines |-> <<>>]
    /\ mapLog = <<>>
    /\ acquired = <<>>
    /\ atLock = [g \in Mappers |-> NoneAtLock]

----------------------------------------------------------------------------
(* Superset, dirEntry and NewDirectoryEntry *)

\* How often the caller changes its Superset after the entry was built.
MaxMutations == 2

\* The fields of Superset the entry's accessors read.  FileNameBytes is a
\* slice: the address of its backing array in heap, NilSlice for nil.
Superset(type, fileName, fileNameBytes, blobRef) ==
    [Type |-> type, FileName |-> fileName, FileNameBytes |-> fileNameBytes,
     BlobRef |-> blobRef]

NilSlice == 0

ArrayAddr == 1

ZeroSuperset == Superset("", <<>>, NilSlice, NilRef)

\* Elements of a []interface{} as json decodes them: strings and float64s.
StrElem(bytes) == [kind |-> "string", str |-> bytes, num |-> 0]

NumElem(n) == [kind |-> "float64", str |-> <<>>, num |-> n]

\* The elements a slice header points at.
SliceOf(hp, addr) == IF addr = NilSlice THEN <<>> ELSE hp[addr]

RECURSIVE stringFromMixedArray(_)
stringFromMixedArray(parts) ==
    IF parts = <<>> THEN <<>>
    ELSE LET part == Head(parts)
             rest == stringFromMixedArray(Tail(parts))
         IN  IF part.kind = "string" THEN part.str \o rest
             ELSE IF part.kind = "float64" THEN <<part.num % 256>> \o rest
             ELSE rest

\* FileNameString that looks at FileNameBytes first.
FileNameString_BytesFirst(s, hp) ==
    IF SliceOf(hp, s.FileNameBytes) # <<>>
    THEN stringFromMixedArray(SliceOf(hp, s.FileNameBytes))
    ELSE s.FileName

FileNameString(s, hp) ==
    IF s.FileName # <<>> THEN s.FileName
    ELSE stringFromMixedArray(SliceOf(hp, s.FileNameBytes))

\* The fields of Superset that SymlinkTargetString reads.
SymlinkSuperset(target, targetBytes) ==
    [Type |-> "symlink", SymlinkTarget |-> target, SymlinkTargetBytes |-> targetBytes]

SymlinkTargetString(s, hp) ==
    IF s.SymlinkTarget # <<>> THEN s.SymlinkTarget
    ELSE stringFromMixedArray(SliceOf(hp, s.SymlinkTargetBytes))

NilReader == 0

\* The nil DirectoryEntry.
NilEntry == [isNil |-> TRUE, ss |-> ZeroSuperset, fr |-> NilReader, dr |-> NilReader]

ErrSsNil == "ss was nil"

ErrBlobRefNil == "ss.BlobRef was nil"

ErrInvalidType == "invalid DirectoryEntry camliType"

EntryTypes == {"file", "directory", "symlink"}

\* NewDirectoryEntry without the test of ss.BlobRef.
NewDirectoryEntry_NoBlobRefTest(ssIsNil, s) ==
    IF ssIsNil THEN [de |-> NilEntry, err |-> ErrSsNil]
    ELSE IF s.Type \notin EntryTypes THEN [de |-> NilEntry, err |-> ErrInvalidType]
    ELSE [de |-> [isNil |-> FALSE, ss |-> s, fr |-> NilReader, dr |-> NilReader],
          err |-> ErrNil]

\* NewDirectoryEntry(fetcher, ss), ss being nil or pointing at s: the entry
\* and the error returned.  The entry holds a copy of the struct *ss.
NewDirectoryEntry(ssIsNil, s) ==
    IF ssIsNil THEN [de |-> NilEntry, err |-> ErrSsNil]
    ELSE IF s.BlobRef = NilRef THEN [de |-> NilEntry, err |-> ErrBlobRefNil]
    ELSE IF s.Type \notin EntryTypes THEN [de |-> NilEntry, err |-> ErrInvalidType]
    ELSE [de |-> [isNil |-> FALSE, ss |-> s, fr |-> NilReader, dr |-> NilReader],
          err |-> ErrNil]

\* dirEntry.CamliType
CamliType(entry) == entry.ss.Type

\* dirEntry.FileName
FileName(entry, hp) == FileNameString(entry.ss, hp)

\* dirEntry.BlobRef
BlobRef(entry) == entry.ss.BlobRef

NoRet == [op |-> "none", ssIsNil |-> FALSE, arg |-> ZeroSuperset, err |-> ErrNil,
          type |-> "", name |-> <<>>, ref |-> NilRef]

Returned(op, ssIsNil, arg, err, type, name, ref) ==
    [op |-> op, ssIsNil |-> ssIsNil, arg |-> arg, err |-> err,
     type |-> type, name |-> name, ref |-> ref]

NoAccess == [type |-> "", name |-> <<>>, ref |-> NilRef]

\* The Supersets a caller hands to NewDirectoryEntry.
SupersetTypes == {"file", "directory", "symlink", "audio", ""}

CallerSupersets ==
    { Superset(t, n[1], n[2], r) :
        t \in SupersetTypes,
        n \in {<< <<88>>, NilSlice >>, << <<>>, ArrayAddr >>, << <<88>>, ArrayAddr >>},
        r \in {NilRef, RefA} }

CallNewDirectoryEntry ==
    \E ssIsNil \in BOOLEAN :
        LET r == NewDirectoryEntry(ssIsNil, ss)
        IN  /\ de.isNil
            /\ de' = r.de
            /\ ret' = Returned("NewDirectoryEntry", ssIsNil, ss, r.err, "", <<>>, NilRef)
            /\ atNew' = IF r.de.isNil THEN NoAccess
                        ELSE [type |-> CamliType(r.de), name |-> FileName(r.de, heap),
                              ref |-> BlobRef(r.de)]
            /\ mutations' = 0
            /\ UNCHANGED <<ss, heap, mapVars, setVars, lazyVars, callVars>>

CallCamliType ==
    /\ ~de.isNil
    /\ ret' = Returned("CamliType", FALSE, ZeroSuperset, ErrNil, CamliType(de), <<>>, NilRef)
    /\ UNCHANGED <<ss, heap, de, atNew, mutations, mapVars, setVars, lazyVars, callVars>>

CallFileName ==
    /\ ~de.isNil
    /\ ret' = Returned("FileName", FALSE, ZeroSuperset, ErrNil, "", FileName(de, heap), NilRef)
    /\ UNCHANGED <<ss, heap, de, atNew, mutations, mapVars, setVars, lazyVars, callVars>>

CallBlobRef ==
    /\ ~de.isNil
    /\ ret' = Returned("BlobRef", FALSE, ZeroSuperset, ErrNil, "", <<>>, BlobRef(de))
    /\ UNCHANGED <<ss, heap, de, atNew, mutations, mapVars, setVars, lazyVars, callVars>>

\* The caller changes its own Superset after the entry was built.
Mutate(field, value) ==
    /\ ~de.isNil
    /\ mutations < MaxMutations
    /\ ss' = [ss EXCEPT ![field] = value]
    /\ mutations' = mutations + 1
    /\ UNCHANGED <<heap, de, ret, atNew, mapVars, setVars, lazyVars, callVars>>

SetType == \E t \in {"directory", "audio"} : Mutate("Type", t)

SetFileName == \E n \in {<<>>, <<98>>} : Mutate("FileName", n)

SetBlobRef == \E r \in {NilRef, RefB} : Mutate("BlobRef", r)

SetFileNameBytes == Mutate("FileNameBytes", NilSlice)

\* The caller stores into an element of ss.FileNameBytes.
SetFileNameBytesElem ==
    \E i \in 1..2, e \in {StrElem(<<88>>), NumElem(200)} :
        /\ ~de.isNil
        /\ mutations < MaxMutations
        /\ ss.FileNameBytes # NilSlice
        /\ heap' = [heap EXCEPT ![ss.FileNameBytes][i] = e]
        /\ mutations' = mutations + 1
        /\ UNCHANGED <<ss, de, ret, atNew, mapVars, setVars, lazyVars, callVars>>

\* The array behind every non-nil FileNameBytes holds "H", "i".
InitHeap == heap = [a \in {ArrayAddr} |-> <<StrElem(<<72>>), StrElem(<<105>>)>>]

\* No entry and no Superset yet.
InitNoEntry ==
    /\ ss = ZeroSuperset
    /\ InitHeap
    /\ de = NilEntry
    /\ ret = NoRet
    /\ atNew = NoAccess
    /\ mutations = 0

----------------------------------------------------------------------------
(* dirEntry.File, dirEntry.Directory and dirEntry.Symlink *)

\* Goroutines that share one DirectoryEntry.
NumCallers == 2

\* How many calls of File, Directory and Symlink are made in all.
MaxCalls == 3

Callers == 1..NumCallers

\* A value of an interface type (File, Directory, Symlink): the nil
\* interface, a reader, or the int 0 that Symlink returns.
NilValue == [nil |-> TRUE, kind |-> "", id |-> 0]

ReaderValue(kind, reader) == [nil |-> FALSE, kind |-> kind, id |-> reader]

IntValue(n) == [nil |-> FALSE, kind |-> "int", id |-> n]

ErrNotFile == "DirectoryEntry is camliType \"directory\" or \"symlink\", not \"file\""

ErrNotDirectory == "DirectoryEntry is camliType \"file\" or \"symlink\", not \"directory\""

ErrSymlinkTodo == "TODO: Symlink not implemented"

ErrFetch == "fetch failed"

NoneMade == [File |-> [calls |-> 0, readers |-> 0],
             Directory |-> [calls |-> 0, readers |-> 0]]

\* NewFileReader(fetcher, blobref) and NewDirReader(fetcher, blobref) fetch
\* the blob and build a reader on it, or fail; fetched tells which.  mk
\* counts the calls and the readers built; a reader is named by its number.
NewReader(kind, fetched, mk) ==
    IF fetched
    THEN [reader |-> mk[kind].readers + 1, err |-> ErrNil,
          made |-> [mk EXCEPT ![kind] = [calls |-> @.calls + 1, readers |-> @.readers + 1]]]
    ELSE [reader |-> NilReader, err |-> ErrFetch,
          made |-> [mk EXCEPT ![kind].calls = @ + 1]]

NewFileReader(fetched, mk) == NewReader("File", fetched, mk)

NewDirReader(fetched, mk) == NewReader("Directory", fetched, mk)

\* de.fr for File, de.dr for Directory.
Cached(entry, op) == IF op = "File" THEN entry.fr ELSE entry.dr

SetCached(entry, op, reader) ==
    IF op = "File" THEN [entry EXCEPT !.fr = reader] ELSE [entry EXCEPT !.dr = reader]

\* Both calls want a "file".
WantedType_AlwaysFile(op) == "file"

WantedType(op) == IF op = "File" THEN "file" ELSE "directory"

ErrWrongType(op) == IF op = "File" THEN ErrNotFile ELSE ErrNotDirectory

Idle == [op |-> "idle", stmt |-> ""]

NoLocal == [reader |-> NilReader, de |-> NilEntry, made |-> NoneMade]

InCall(g) == at[g].op # "idle"

CallsBegun == Len(done) + Cardinality({g \in Callers : InCall(g)})

\* The call of goroutine g returns val, err; mk counts the readers made by then.
Finish(g, val, err, mk) ==
    /\ done' = Append(done, [by |-> g, op |-> at[g].op, val |-> val, err |-> err,
                             type |-> CamliType(de),
                             pre |-> [de |-> local[g].de, made |-> local[g].made],
                             post |-> [de |-> de, made |-> mk]])
    /\ at' = [at EXCEPT ![g] = Idle]
    /\ local' = [local EXCEPT ![g] = NoLocal]

\* Goroutine g calls de.File() or de.Directory().
CallBegin(g, op) ==
    /\ ~de.isNil
    /\ ~InCall(g)
    /\ CallsBegun < MaxCalls
    /\ at' = [at EXCEPT ![g] = [op |-> op, stmt |-> "test"]]
    /\ local' = [local EXCEPT ![g] = [reader |-> NilReader, de |-> de, made |-> made]]
    /\ UNCHANGED <<made, done, entryVars, mapVars, setVars, callVars>>

\* The test that always finds the cache empty.
CallTest_NoCache(g) ==
    /\ at[g].stmt = "test"
    /\ IF CamliType(de) # WantedType(at[g].op)
       THEN /\ Finish(g, NilValue, ErrWrongType(at[g].op), made)
            /\ UNCHANGED <<made, entryVars, mapVars, setVars, callVars>>
       ELSE /\ at' = [at EXCEPT ![g].stmt = "new"]
            /\ UNCHANGED <<local, made, done, entryVars, mapVars, setVars, callVars>>

\* if de.fr == nil { if de.ss.Type != "file" { return nil, error } ... }
CallTest(g) ==
    /\ at[g].stmt = "test"
    /\ IF Cached(de, at[g].op) # NilReader
       THEN /\ at' = [at EXCEPT ![g].stmt = "return"]
            /\ UNCHANGED <<local, made, done, entryVars, mapVars, setVars, callVars>>
       ELSE IF CamliType(de) # WantedType(at[g].op)
       THEN /\ Finish(g, NilValue, ErrWrongType(at[g].op), made)
            /\ UNCHANGED <<made, entryVars, mapVars, setVars, callVars>>
       ELSE /\ at' = [at EXCEPT ![g].stmt = "new"]
            /\ UNCHANGED <<local, made, done, entryVars, mapVars, setVars, callVars>>

\* fr, err := NewFileReader(de.fetcher, de.ss.BlobRef); if err != nil { return nil, err }
CallNew(g) ==
    /\ at[g].stmt = "new"
    /\ \E fetched \in BOOLEAN :
        LET r == IF at[g].op = "File" THEN NewFileReader(fetched, made)
                                      ELSE NewDirReader(fetched, made)
        IN  /\ made' = r.made
            /\ IF r.err # ErrNil
               THEN Finish(g, NilValue, r.err, r.made)
               ELSE /\ at' = [at EXCEPT ![g].stmt = "store"]
                    /\ local' = [local EXCEPT ![g].reader = r.reader]
                    /\ UNCHANGED done
    /\ UNCHANGED <<entryVars, mapVars, setVars, callVars>>

\* de.fr = fr
CallStore(g) ==
    /\ at[g].stmt = "store"
    /\ de' = SetCached(de, at[g].op, local[g].reader)
    /\ at' = [at EXCEPT ![g].stmt = "return"]
    /\ UNCHANGED <<local, made, done, ss, heap, ret, atNew, mutations,
                   mapVars, setVars, callVars>>

\* return de.fr, nil
CallReturn(g) ==
    /\ at[g].stmt = "return"
    /\ Finish(g, ReaderValue(at[g].op, Cached(de, at[g].op)), ErrNil, made)
    /\ UNCHANGED <<made, entryVars, mapVars, setVars, callVars>>

\* de.Symlink(): return 0, errors.New("TODO: Symlink not implemented")
CallSymlink(g) ==
    /\ ~de.isNil
    /\ ~InCall(g)
    /\ CallsBegun < MaxCalls
    /\ done' = Append(done, [by |-> g, op |-> "Symlink", val |-> IntValue(0),
                             err |-> ErrSymlinkTodo, type |-> CamliType(de),
                             pre |-> [de |-> de, made |-> made],
                             post |-> [de |-> de, made |-> made]])
    /\ UNCHANGED <<at, local, made, entryVars, mapVars, setVars, callVars>>

\* No call on the entry's readers has been made.
InitNoReaders ==
    /\ at = [g \in Callers |-> Idle]
    /\ local = [g \in Callers |-> NoLocal]
    /\ made = NoneMade
    /\ done = <<>>

----------------------------------------------------------------------------
(* Initial states of the other objects *)

NoCall == [op |-> "none", pre |-> EmptyMap, size |-> 0, parts |-> <<>>,
           err |-> ErrNil, out |-> ""]

\* No function has been applied and no reader is open.
InitNoCalls ==
    /\ fn = "none"
    /\ args = <<>>
    /\ result = <<>>
    /\ obj = <<>>

\* No map operation has been called.
InitNoMap ==
    /\ m = EmptyMap
    /\ origin = "caller"
    /\ call = NoCall
    /\ panicked = FALSE

----------------------------------------------------------------------------
(* The inputs the callers of the map operations choose from *)

\* Maps a caller put together by hand before calling into the package.
CallerMaps ==
    { EmptyMap,
      [camliType |-> "file"],
      [camliVersion |-> 1],
      [camliVersion |-> 1, camliType |-> "file", parts |-> <<[size |-> 7]>>],
      [camliVersion |-> 1, camliType |-> "file", callback |-> "func"] }

PartChoices ==
    { BytesPart(20, RefA, NilRef, 0),
      BytesPart(30, NilRef, RefB, 7),
      BytesPart(30, RefA, RefB, 0),
      BytesPart(100, NilRef, NilRef, 0),
      BytesPart(TwoToW - 50, RefA, NilRef, 0) }

RECURSIVE SeqsUpTo(_, _)
SeqsUpTo(S, n) ==
    IF n = 0 THEN {<<>>}
    ELSE LET shorter == SeqsUpTo(S, n - 1)
         IN  shorter \cup {Append(q, x) : q \in shorter, x \in S}

PartLists == SeqsUpTo(PartChoices, MaxParts)

DeclaredSizes == {50, 100}

\* The parts lists of the files whose maps are then serialized.
FilePartLists ==
    { <<BytesPart(20, RefA, NilRef, 0), BytesPart(30, NilRef, RefB, 7)>>,
      <<BytesPart(100, NilRef, NilRef, 0)>> }

RandSources ==
    { [i \in 1..RandLen |-> 0],
      [i \in 1..RandLen |-> 255],
      [i \in 1..RandLen |-> (i * 13) % 256],
      [i \in 1..(RandLen - 1) |-> 7],
      <<>> }

FileNames ==
    { <<>>, <<97>>, <<98, 47, 97>>, <<97, 47>>, <<47>>, <<72, 105>>, <<255, 97>> }

RefLists == {<<>>, <<RefA>>, <<RefB, RefA>>}

Times ==
    { Time(2011, 11, 3, 22, 1, 5, 0),
      Time(2012, 1, 2, 3, 4, 5, 500000000),
      Time(1969, 12, 31, 23, 59, 59, 5) }

Attrs == {"title", "tag"}

Values == {"", "v"}

Called(op, pre, size, parts, err, out) ==
    [op |-> op, pre |-> pre, size |-> size, parts |-> parts, err |-> err, out |-> out]

\* A builder returned the fresh map built.
Built(name, built) ==
    /\ ~panicked
    /\ m' = built
    /\ origin' = name
    /\ call' = Called(name, EmptyMap, 0, <<>>, ErrNil, "")
    /\ UNCHANGED <<panicked, setVars, entryVars, lazyVars, callVars>>

----------------------------------------------------------------------------
(* The operations on a camli map *)

CallNewUnsignedPermanode ==
    \E src \in RandSources :
        LET r == NewUnsignedPermanode(src)
        IN  IF r.panic
            THEN /\ ~panicked
                 /\ panicked' = TRUE
                 /\ UNCHANGED <<m, origin, call, setVars, entryVars, lazyVars, callVars>>
            ELSE Built("NewUnsignedPermanode", r.m)

CallStaticSetMap ==
    \E rs \in RefLists : Built("StaticSet.Map", StaticSetMap(rs))

CallNewFileMap ==
    \E name \in FileNames : Built("NewFileMap", NewFileMap(name))

CallNewBytes == Built("NewBytes", NewBytes)

CallNewShareRef ==
    \E target \in {RefA, RefB}, transitive \in BOOLEAN :
        Built("NewShareRef", NewShareRef(ShareHaveRef, target, transitive))

CallNewClaim ==
    \E now \in Times : Built("NewClaim", NewClaim(RefA, "set-attribute", now))

CallNewSetAttributeClaim ==
    \E attr \in Attrs, value \in Values, now \in Times :
        Built("NewSetAttributeClaim", NewSetAttributeClaim(RefA, attr, value, now))

CallNewAddAttributeClaim ==
    \E attr \in Attrs, value \in Values, now \in Times :
        Built("NewAddAttributeClaim", NewAddAttributeClaim(RefA, attr, value, now))

CallNewDelAttributeClaim ==
    \E attr \in Attrs, now \in Times :
        Built("NewDelAttributeClaim", NewDelAttributeClaim(RefA, attr, now))

PopulatePartsWith(sizes, lists) ==
    \E size \in sizes, parts \in lists :
        LET r == PopulateParts(m, size, parts)
        IN  /\ ~panicked
            /\ m' = r.m
            /\ call' = Called("PopulateParts", m, size, parts, r.err, "")
            /\ UNCHANGED <<origin, panicked, setVars, entryVars, lazyVars, callVars>>

\* PopulateParts on any size and parts list.
CallPopulateParts == PopulatePartsWith(DeclaredSizes, PartLists)

\* PopulateParts as a writer of file maps calls it.
CallPopulateFileParts == PopulatePartsWith({50}, FilePartLists)

CallPopulateDirectoryMap ==
    \E ref \in {RefC} :
        /\ ~panicked
        /\ m' = PopulateDirectoryMap(m, ref)
        /\ call' = Called("PopulateDirectoryMap", m, 0, <<>>, ErrNil, "")
        /\ UNCHANGED <<origin, panicked, setVars, entryVars, lazyVars, callVars>>

CallMapToCamliJSON ==
    LET r == MapToCamliJSON(m)
    IN  /\ ~panicked
        /\ m' = r.m
        /\ call' = Called("MapToCamliJSON", m, 0, <<>>, r.err, r.out)
        /\ UNCHANGED <<origin, panicked, setVars, entryVars, lazyVars, callVars>>

InitMap ==
    /\ m \in CallerMaps
    /\ origin = "caller"
    /\ call = NoCall
    /\ panicked = FALSE
    /\ InitSet
    /\ InitNoEntry
    /\ InitNoReaders
    /\ InitNoCalls

NextMap ==
    \/ CallNewUnsignedPermanode
    \/ CallStaticSetMap
    \/ CallNewFileMap
    \/ CallNewBytes
    \/ CallNewShareRef
    \/ CallNewClaim
    \/ CallNewSetAttributeClaim
    \/ CallNewAddAttributeClaim
    \/ CallNewDelAttributeClaim
    \/ CallPopulateFileParts
    \/ CallPopulateDirectoryMap
    \/ CallMapToCamliJSON

\* The builders, the two Populate calls and MapToCamliJSON on one map.
SpecMap == InitMap /\ [][NextMap]_vars

NextParts ==
    \/ CallNewBytes
    \/ CallPopulateParts

\* The caller starts with a file map that already holds a "parts" key.
InitParts ==
    /\ m = [camliVersion |-> 1, camliType |-> "file", parts |-> <<[size |-> 7]>>]
    /\ origin = "caller"
    /\ call = NoCall
    /\ panicked = FALSE
    /\ InitSet
    /\ InitNoEntry
    /\ InitNoReaders
    /\ InitNoCalls

\* PopulateParts on every size and parts list, on a map that is a caller's
\* or fresh from NewBytes.
SpecParts == InitParts /\ [][NextParts]_vars

NextSet ==
    \/ \E a \in Adders : AddLock(a)
    \/ \E a \in Adders : AddRead(a)
    \/ \E a \in Adders : AddWrite(a)
    \/ \E a \in Adders : AddUnlock(a)
    \/ \E p \in Mappers : MapLock(p)
    \/ \E p \in Mappers : MapMembers(p)
    \/ \E p \in Mappers : MapUnlock(p)

InitSetOnly ==
    /\ InitNoMap
    /\ InitSet
    /\ InitNoEntry
    /\ InitNoReaders
    /\ InitNoCalls

\* Goroutines calling Add and Map on one StaticSet, in any interleaving.
SpecSet == InitSetOnly /\ [][NextSet]_vars

InitEntry ==
    /\ InitNoMap
    /\ InitSet
    /\ ss \in CallerSupersets
    /\ InitHeap
    /\ de = NilEntry
    /\ ret = NoRet
    /\ atNew = NoAccess
    /\ mutations = 0
    /\ InitNoReaders
    /\ InitNoCalls

NextEntry ==
    \/ CallNewDirectoryEntry
    \/ CallCamliType
    \/ CallFileName
    \/ CallBlobRef
    \/ SetType
    \/ SetFileName
    \/ SetBlobRef
    \/ SetFileNameBytes
    \/ SetFileNameBytesElem

\* A caller building an entry from its Superset, then changing the Superset
\* and reading the entry.
SpecEntry == InitEntry /\ [][NextEntry]_vars

\* No call of File, Directory or Symlink is under way.
Sequential == \A g \in Callers : ~InCall(g)

NextLazy ==
    \/ CallNewDirectoryEntry
    \/ SetType
    \/ \E g \in Callers, op \in {"File", "Directory"} : Sequential /\ CallBegin(g, op)
    \/ \E g \in Callers : CallTest(g)
    \/ \E g \in Callers : CallNew(g)
    \/ \E g \in Callers : CallStore(g)
    \/ \E g \in Callers : CallReturn(g)
    \/ \E g \in Callers : Sequential /\ CallSymlink(g)

\* A Superset of each type an entry can have, and one of no such type.
InitLazy ==
    /\ InitNoMap
    /\ InitSet
    /\ ss \in {Superset(t, <<88>>, NilSlice, RefA) : t \in EntryTypes \cup {"audio"}}
    /\ InitHeap
    /\ de = NilEntry
    /\ ret = NoRet
    /\ atNew = NoAccess
    /\ mutations = 0
    /\ InitNoReaders
    /\ InitNoCalls

\* Callers of one entry that call File, Directory and Symlink one after the
\* other, while the owner of the Superset changes its Type.
SpecLazy == InitLazy /\ [][NextLazy]_vars

InitRace ==
    /\ InitNoMap
    /\ InitSet
    /\ ss \in {s \in CallerSupersets : ~NewDirectoryEntry(FALSE, s).de.isNil}
    /\ InitHeap
    /\ de = NilEntry
    /\ ret = NoRet
    /\ atNew = NoAccess
    /\ mutations = 0
    /\ InitNoReaders
    /\ InitNoCalls

NextRace ==
    \/ CallNewDirectoryEntry
    \/ \E g \in Callers, op \in {"File", "Directory"} : CallBegin(g, op)
    \/ \E g \in Callers : CallTest(g)
    \/ \E g \in Callers : CallNew(g)
    \/ \E g \in Callers : CallStore(g)
    \/ \E g \in Callers : CallReturn(g)

\* Goroutines calling File and Directory on one entry at the same time: the
\* statements of the calls interleave, dirEntry holding no lock.
SpecRace == InitRace /\ [][NextRace]_vars

----------------------------------------------------------------------------
(* Reading a serialized object back *)

CharAt(text, i) == SubSeq(text, i, i)

\* The positions at which the keys of the outermost object of text start:
\* right after the opening brace, and at the start of every line indented by
\* exactly two spaces.
KeyStarts(text) ==
    (IF Len(text) >= 2 /\ SubSeq(text, 1, 2) = "{\"" THEN {3} ELSE {})
        \cup {i + 4 : i \in {j \in 1..(Len(text) - 3) : SubSeq(text, j, j + 3) = "\n  \""}}

\* The key that starts at position start: the text up to the closing quote.
KeyAt(text, start) ==
    LET close == CHOOSE j \in start..Len(text) :
                    /\ CharAt(text, j) = "\""
                    /\ \A k \in start..(j - 1) : CharAt(text, k) # "\""
    IN  SubSeq(text, start, close - 1)

NumTopLevelKeys(text) == Cardinality(KeyStarts(text))

\* The n-th key of the outermost object of text, in the order written.
TopLevelKey(text, n) ==
    LET starts == KeyStarts(text)
        start  == CHOOSE p \in starts : Cardinality({q \in starts : q < p}) = n - 1
    IN  KeyAt(text, start)

\* The bytes a character of ByteChar stands for.
CharByte(ch) == CHOOSE b \in {46, 47, 72, 88, 97, 98, 105} : ByteChar(b) = ch

\* The bytes of a text of such characters.
RECURSIVE TextBytes(_)
TextBytes(text) ==
    IF text = "" THEN <<>>
    ELSE <<CharByte(SubSeq(text, 1, 1))>> \o TextBytes(SubSeq(text, 2, Len(text)))

\* Where the value of a key of the outermost object starts; 0 without the key.
ValueStart(text, key) ==
    LET starts == {p \in KeyStarts(text) : KeyAt(text, p) = key}
    IN  IF starts = {} THEN 0 ELSE (CHOOSE p \in starts : TRUE) + Len(key) + 3

\* The kind of the JSON value that starts at position i.
KindAt(text, i) ==
    IF CharAt(text, i) = "\"" THEN "string"
    ELSE IF CharAt(text, i) = "[" THEN "array"
    ELSE IF CharAt(text, i) = "{" THEN "object"
    ELSE IF IsDigitAt(text, i) THEN "number"
    ELSE "other"

\* The string value whose opening quote stands at position i (the strings
\* of the model hold no character that json escapes).
StringAt(text, i) == KeyAt(text, i + 1)

\* The elements of the array whose bracket stands at position i: each on a
\* line of its own, a string or a number.
ArrayAt(text, i) ==
    IF SubSeq(text, i, i + 1) = "[]" THEN <<>>
    ELSE LET close  == CHOOSE j \in i..Len(text) :
                          /\ SubSeq(text, j, j + 3) = "\n  ]"
                          /\ \A k \in i..(j - 1) : SubSeq(text, k, k + 3) # "\n  ]"
             starts == {j + 5 : j \in {k \in i..(close - 1) :
                                          SubSeq(text, k, k + 4) = "\n    "}}
             nth(n) == CHOOSE q \in starts : Cardinality({r \in starts : r < q}) = n - 1
         IN  [n \in 1..Cardinality(starts) |->
                 IF KindAt(text, nth(n)) = "string"
                 THEN StrElem(TextBytes(StringAt(text, nth(n))))
                 ELSE NumElem(Number(text, nth(n), DigitsEnd(text, nth(n))))]

ErrUnmarshalType == "json: cannot unmarshal string into Go value of type []interface {}"

\* json's Decode of the text of an object into a Superset: the fields the
\* entry reads, the elements decoded into FileNameBytes, and the error.  A
\* value of the wrong kind leaves its field alone and makes Decode report
\* an UnmarshalTypeError.
DecodeSuperset(text) ==
    LET typeAt  == ValueStart(text, "camliType")
        nameAt  == ValueStart(text, "fileName")
        bytesAt == ValueStart(text, "fileNameBytes")
        typeOk  == typeAt = 0 \/ KindAt(text, typeAt) = "string"
        nameOk  == nameAt = 0 \/ KindAt(text, nameAt) = "string"
        bytesOk == bytesAt = 0 \/ KindAt(text, bytesAt) = "array"
        elems   == IF bytesAt # 0 /\ bytesOk THEN ArrayAt(text, bytesAt) ELSE <<>>
    IN  [ss |-> Superset(IF typeAt # 0 /\ typeOk THEN StringAt(text, typeAt) ELSE "",
                         IF nameAt # 0 /\ nameOk
                         THEN TextBytes(StringAt(text, nameAt)) ELSE <<>>,
                         IF elems = <<>> THEN NilSlice ELSE ArrayAddr,
                         NilRef),
         elems |-> elems,
         err |-> IF typeOk /\ nameOk /\ bytesOk THEN ErrNil ELSE ErrUnmarshalType]

----------------------------------------------------------------------------
(* The functions of the package applied to the inputs of a caller *)

\* Function name is applied to the arguments a and returns r.  The
\* functions keep no state, so one application per behaviour shows them all.
Apply(name, a, r) ==
    /\ fn = "none"
    /\ fn' = name
    /\ args' = a
    /\ result' = r
    /\ UNCHANGED <<obj, mapVars, setVars, entryVars, lazyVars>>

\* The three attribute claims built from the same arguments.
ApplyAttributeClaims ==
    \E permaNode \in {RefA, RefB}, attr \in Attrs, value \in Values, now \in Times :
        Apply("AttributeClaims",
              [permaNode |-> permaNode, attr |-> attr, value |-> value],
              [set |-> NewSetAttributeClaim(permaNode, attr, value, now),
               add |-> NewAddAttributeClaim(permaNode, attr, value, now),
               del |-> NewDelAttributeClaim(permaNode, attr, now)])

\* What rand.Reader delivers before it ends: nothing, too little, exactly
\* enough or more than NewUnsignedPermanode asks for.
RandReads ==
    { [i \in 1..n |-> (i * k) % 256] : n \in 0..(RandLen + 2), k \in {0, 13, 255} }

ApplyNewUnsignedPermanode ==
    \E src \in RandReads :
        Apply("NewUnsignedPermanode", [src |-> src], NewUnsignedPermanode(src))

\* Longest fileNameBytes / symlinkTargetBytes array decoded.
MaxElems == 3

\* The elements of such an array: one-character strings (one of them of
\* two bytes) and byte values.
MixedElems ==
    {StrElem(<<72>>), StrElem(<<105>>), StrElem(<<195, 169>>), NumElem(0), NumElem(255)}

\* FileNameString and SymlinkTargetString on a Superset with the plain
\* string and the array given (the nil slice for the empty array).
ApplyNameStrings ==
    \E plain \in {<<>>, <<88>>}, elems \in SeqsUpTo(MixedElems, MaxElems) :
        LET addr == IF elems = <<>> THEN NilSlice ELSE ArrayAddr
            hp   == [a \in {ArrayAddr} |-> elems]
        IN  Apply("NameStrings",
                  [plain |-> plain, elems |-> elems],
                  [fileName |-> FileNameString(Superset("file", plain, addr, RefA), hp),
                   symlinkTarget |-> SymlinkTargetString(SymlinkSuperset(plain, addr), hp)])

\* Instants an int64 of nanoseconds can hold: days from 1677 to 2262 (the
\* first and the last whole day of the range, a leap day, the days around
\* 1970), times of the day, and fractions of a second.
Instants ==
    { Nanos(days, sec, nsec) :
        days \in {-106751, -25567, -1, 0, 1, 11016, 15281, 106750},
        sec  \in {0, 1, 43200, 79265, 86399},
        nsec \in {0, 5, 120000000, 500000000, 999999999} }

\* A time formatted by RFC3339FromTime and read back by NanosFromRFC3339.
ApplyTimestamps ==
    \E instant \in Instants :
        LET text == RFC3339FromTime(TimeOfNanos(instant))
        IN  Apply("Timestamps", [instant |-> instant],
                  [text |-> text, nanos |-> NanosFromRFC3339(text)])

\* A file map written by NewFileMap and MapToCamliJSON and read back into a
\* Superset: the error of the decoding and the name the Superset gives.
ApplyFileNameRoundTrip ==
    \E name \in FileNames \ {<<>>} :
        LET written == MapToCamliJSON(NewFileMap(name))
            decoded == DecodeSuperset(written.out)
            hp      == [a \in {ArrayAddr} |-> decoded.elems]
        IN  Apply("FileNameRoundTrip", [name |-> name],
                  [json |-> written.out, err |-> decoded.err,
                   name |-> FileNameString(decoded.ss, hp)])

\* Objects as another writer may have stored them, fileNameBytes being an
\* array of strings and numbers.
StoredObjects ==
    { "{\"camliVersion\": 1,\n  \"camliType\": \"file\",\n  \"fileNameBytes\": [\n    \"H\",\n    105\n  ]\n}",
      "{\"camliVersion\": 1,\n  \"camliType\": \"file\",\n  \"fileNameBytes\": [\n    255,\n    \"a\"\n  ]\n}",
      "{\"camliVersion\": 1,\n  \"camliType\": \"file\",\n  \"fileNameBytes\": []\n}",
      "{\"camliVersion\": 1,\n  \"camliType\": \"file\",\n  \"fileName\": \"Hi\"\n}" }

ApplyDecode ==
    \E text \in StoredObjects :
        LET decoded == DecodeSuperset(text)
            hp      == [a \in {ArrayAddr} |-> decoded.elems]
        IN  Apply("Decode", [json |-> text],
                  [err |-> decoded.err, name |-> FileNameString(decoded.ss, hp)])

NextApply ==
    \/ ApplyAttributeClaims
    \/ ApplyNewUnsignedPermanode
    \/ ApplyNameStrings
    \/ ApplyTimestamps
    \/ ApplyFileNameRoundTrip
    \/ ApplyDecode

\* A caller applying the functions of the package to inputs of its choice.
SpecApply == InitSetOnly /\ [][NextApply]_vars

----------------------------------------------------------------------------
(* Directory.Readdir *)

\* Most entries in a directory, and most Readdir calls on one reader.
MaxEntries == 5

MaxReaddirs == 4

EOF == "EOF"

Min(a, b) == IF a < b THEN a ELSE b

\* A directory reader on the static set of a directory with n entries, the
\* entries being named by their position; current is the cursor.
DirReader(n) == [entries |-> [i \in 1..n |-> i], current |-> 0]

\* Readdir that hands out the whole directory when count <= 0.
Readdir_FromStart(dr, count) ==
    LET remaining == Len(dr.entries) - dr.current
    IN  IF count <= 0
        THEN [entries |-> dr.entries, err |-> ErrNil,
              dr |-> [dr EXCEPT !.current = Len(dr.entries)]]
        ELSE IF remaining = 0
        THEN [entries |-> <<>>, err |-> EOF, dr |-> dr]
        ELSE LET k == Min(count, remaining)
             IN  [entries |-> SubSeq(dr.entries, dr.current + 1, dr.current + k),
                  err |-> ErrNil,
                  dr |-> [dr EXCEPT !.current = @ + k]]

\* dr.Readdir(count): the entries and the error returned, and the reader
\* after the call.
Readdir(dr, count) ==
    LET remaining == Len(dr.entries) - dr.current
    IN  IF count <= 0
        THEN [entries |-> SubSeq(dr.entries, dr.current + 1, Len(dr.entries)),
              err |-> ErrNil,
              dr |-> [dr EXCEPT !.current = Len(dr.entries)]]
        ELSE IF remaining = 0
        THEN [entries |-> <<>>, err |-> EOF, dr |-> dr]
        ELSE LET k == Min(count, remaining)
             IN  [entries |-> SubSeq(dr.entries, dr.current + 1, dr.current + k),
                  err |-> ErrNil,
                  dr |-> [dr EXCEPT !.current = @ + k]]

\* A call on the reader obj: args and result hold the calls made so far
\* and what each returned.
Record(name, a, r, reader) ==
    /\ fn' = name
    /\ args' = Append(args, a)
    /\ result' = Append(result, r)
    /\ obj' = reader
    /\ UNCHANGED <<mapVars, setVars, entryVars, lazyVars>>

CallReaddir ==
    \E count \in {-1, 0, 1, 2, 3} :
        LET r == Readdir(obj, count)
        IN  /\ Len(args) < MaxReaddirs
            /\ Record("Readdir", [count |-> count, current |-> obj.current],
                      [entries |-> r.entries, err |-> r.err], r.dr)

InitReaddir ==
    /\ InitNoMap
    /\ InitSet
    /\ InitNoEntry
    /\ InitNoReaders
    /\ fn = "none"
    /\ args = <<>>
    /\ result = <<>>
    /\ obj \in {DirReader(n) : n \in 0..MaxEntries}

NextReaddir == CallReaddir

\* A caller paging through a directory of up to MaxEntries entries.
SpecReaddir == InitReaddir /\ [][NextReaddir]_vars

----------------------------------------------------------------------------
(* File.Read and File.Skip *)

\* Most Read and Skip calls on one reader.
MaxFileCalls == 3

\* A file reader on the parts of a file, each part given as the bytes of
\* its blob.  The cursor is the part it stands in (ci) and the number of
\* bytes of that part already passed (ccon).
FileReader(parts) == [parts |-> parts, ci |-> 1, ccon |-> 0]

\* The cursor moved over n bytes, or to the end of the content if that
\* comes first, going to the next part whenever one is exhausted: the
\* bytes passed and the reader afterwards.
RECURSIVE Advance(_, _)
Advance(fr, n) ==
    IF fr.ci > Len(fr.parts) THEN [bytes |-> <<>>, fr |-> fr]
    ELSE LET part == fr.parts[fr.ci]
             left == Len(part) - fr.ccon
         IN  IF left = 0
             THEN Advance([fr EXCEPT !.ci = @ + 1, !.ccon = 0], n)
             ELSE IF n = 0 THEN [bytes |-> <<>>, fr |-> fr]
             ELSE LET k    == Min(n, left)
                      rest == Advance([fr EXCEPT !.ccon = @ + k], n - k)
                  IN  [bytes |-> SubSeq(part, fr.ccon + 1, fr.ccon + k) \o rest.bytes,
                       fr |-> rest.fr]

\* fr.Read(p) with len(p) = size: the bytes put into p, their number, the
\* error (EOF when the content is exhausted) and the reader afterwards.
Read(fr, size) ==
    LET a == Advance(fr, size)
    IN  [bytes |-> a.bytes, n |-> Len(a.bytes),
         err |-> IF size > 0 /\ a.bytes = <<>> THEN EOF ELSE ErrNil,
         fr |-> a.fr]

\* Skip that reports the whole of skipBytes as skipped.
Skip_ReportsAll(fr, skipBytes) ==
    [n |-> skipBytes, fr |-> Advance(fr, skipBytes).fr]

\* fr.Skip(skipBytes): the number of bytes skipped and the reader afterwards.
Skip(fr, skipBytes) ==
    LET a == Advance(fr, skipBytes)
    IN  [n |-> Len(a.bytes), fr |-> a.fr]

\* The distance of the cursor from the start of the content.
RECURSIVE Offset(_, _)
Offset(fr, i) ==
    IF i >= fr.ci \/ i > Len(fr.parts) THEN 0
    ELSE Len(fr.parts[i]) + Offset(fr, i + 1)

Cursor(fr) == Offset(fr, 1) + (IF fr.ci > Len(fr.parts) THEN 0 ELSE fr.ccon)

\* The files read: "abc" then "defg"; no part; one part; a file with an
\* empty part in the middle.
FileContents ==
    { << <<97, 98, 99>>, <<100, 101, 102, 103>> >>,
      << >>,
      << <<97, 98, 99>> >>,
      << <<97>>, << >>, <<98, 99>> >> }

CallRead ==
    \E size \in {0, 1, 3, 7} :
        LET r == Read(obj, size)
        IN  /\ Len(args) < MaxFileCalls
            /\ Record("Read", [op |-> "Read", n |-> size, cursor |-> Cursor(obj)],
                      [bytes |-> r.bytes, n |-> r.n, err |-> r.err], r.fr)

CallSkip ==
    \E skipBytes \in {0, 1, 4, 9} :
        LET r == Skip(obj, skipBytes)
        IN  /\ Len(args) < MaxFileCalls
            /\ Record("Skip", [op |-> "Skip", n |-> skipBytes, cursor |-> Cursor(obj)],
                      [bytes |-> <<>>, n |-> r.n, err |-> ErrNil], r.fr)

InitFile ==
    /\ InitNoMap
    /\ InitSet
    /\ InitNoEntry
    /\ InitNoReaders
    /\ fn = "none"
    /\ args = <<>>
    /\ result = <<>>
    /\ obj \in {FileReader(parts) : parts \in FileContents}

NextFile ==
    \/ CallRead
    \/ CallSkip

\* A caller reading and skipping through a file.
SpecFile == InitFile /\ [][NextFile]_vars

----------------------------------------------------------------------------
(* Measures of the inputs *)

\* The sum of the parts' sizes as exact integers.
RECURSIVE TrueSum(_)
TrueSum(parts) == IF parts = <<>> THEN 0 ELSE Head(parts).Size + TrueSum(Tail(parts))

BothRefs(part) == part.BlobRef # NilRef /\ part.BytesRef # NilRef

HasConflict(parts) == \E i \in 1..Len(parts) : BothRefs(parts[i])

----------------------------------------------------------------------------
(* Claims *)

\* C1: PopulateParts is all-or-nothing: whenever it returns an error the map
\* is exactly what it was before the call, "parts" key included.
C1_PopulatePartsAllOrNothing ==
    (call.op = "PopulateParts" /\ call.err # ErrNil) => m = call.pre

\* A size mismatch was reported on a map that already held "parts", after the
\* loop had built the serialized parts.
C1_Witness ==
    /\ call.op = "PopulateParts"
    /\ call.err = ErrSizeMismatch
    /\ Len(call.parts) = 2
    /\ HasKey(call.pre, "parts")
    /\ m = call.pre

\* C2: every parts list that contains a part with both references set gets
\* the conflicting-reference error, whatever the sizes and the position.
C2_ConflictAlwaysRejected ==
    (call.op = "PopulateParts" /\ HasConflict(call.parts)) => call.err = ErrBothRefs

\* The conflicting part comes second and the sizes add up to the declared size.
C2_Witness ==
    /\ call.op = "PopulateParts"
    /\ Len(call.parts) = 2
    /\ ~BothRefs(call.parts[1])
    /\ BothRefs(call.parts[2])
    /\ TrueSum(call.parts) = call.size
    /\ call.err = ErrBothRefs

\* C3: without a conflicting part, PopulateParts returns nil exactly when the
\* exact sum of the sizes equals the declared size, and the size-mismatch
\* error otherwise.
C3_AcceptsExactlyTrueSum ==
    (call.op = "PopulateParts" /\ ~HasConflict(call.parts)) =>
        /\ (call.err = ErrNil) <=> (TrueSum(call.parts) = call.size)
        /\ (call.err # ErrNil) => call.err = ErrSizeMismatch

\* C4 as stated: on success every element of m["parts"] carries exactly one
\* of "blobRef" / "bytesRef".
C4_ExactlyOneRef ==
    (call.op = "PopulateParts" /\ call.err = ErrNil) =>
        /\ Len(m["parts"]) = Len(call.parts)
        /\ \A i \in 1..Len(call.parts) :
              /\ m["parts"][i]["size"] = call.parts[i].Size
              /\ HasKey(m["parts"][i], "blobRef") # HasKey(m["parts"][i], "bytesRef")
              /\ HasKey(m["parts"][i], "offset") <=> (call.parts[i].Offset # 0)

\* C4, amended: on success m["parts"] has one element per part in input
\* order; each carries "size", "blobRef" exactly when the part's BlobRef is
\* set, "bytesRef" exactly when its BytesRef is set (so at most one of the
\* two, and neither for a part without a reference), and "offset" exactly
\* when the Offset is non-zero.
C4_AtMostOneRef ==
    (call.op = "PopulateParts" /\ call.err = ErrNil) =>
        /\ Len(m["parts"]) = Len(call.parts)
        /\ \A i \in 1..Len(call.parts) :
              LET mpart == m["parts"][i]
                  part  == call.parts[i]
              IN  /\ mpart["size"] = part.Size
                  /\ HasKey(mpart, "blobRef") <=> (part.BlobRef # NilRef)
                  /\ HasKey(mpart, "bytesRef") <=> (part.BytesRef # NilRef)
                  /\ ~(HasKey(mpart, "blobRef") /\ HasKey(mpart, "bytesRef"))
                  /\ HasKey(mpart, "blobRef") => mpart["blobRef"] = BlobRefString(part.BlobRef)
                  /\ HasKey(mpart, "bytesRef") => mpart["bytesRef"] = BlobRefString(part.BytesRef)
                  /\ HasKey(mpart, "offset") <=> (part.Offset # 0)
                  /\ HasKey(mpart, "offset") => mpart["offset"] = part.Offset

\* A successful call on two parts, one with an offset and a bytesRef, the
\* other with a blobRef and no offset.
C4_Witness ==
    /\ call.op = "PopulateParts"
    /\ call.err = ErrNil
    /\ Len(call.parts) = 2
    /\ call.parts[1].Offset # 0
    /\ call.parts[1].BytesRef # NilRef
    /\ call.parts[2].Offset = 0
    /\ call.parts[2].BlobRef # NilRef

\* C5: MapToCamliJSON returns ErrNoCamliVersion exactly when the map has no
\* "camliVersion" key, and then returns "" and leaves the map as it was.
C5_NoVersionError ==
    call.op = "MapToCamliJSON" =>
        /\ (call.err = ErrNoCamliVersion) <=> ~HasKey(call.pre, "camliVersion")
        /\ (call.err = ErrNoCamliVersion) => (call.out = "" /\ m = call.pre)

\* A map with other keys but no "camliVersion" was refused.
C5_Witness ==
    /\ call.op = "MapToCamliJSON"
    /\ call.err = ErrNoCamliVersion
    /\ call.pre # EmptyMap
    /\ m = call.pre

Builders ==
    { "NewUnsignedPermanode", "StaticSet.Map", "NewFileMap", "NewBytes",
      "NewShareRef", "NewClaim", "NewSetAttributeClaim", "NewAddAttributeClaim",
      "NewDelAttributeClaim" }

\* C6: for every map a builder produced (extended or not by PopulateParts or
\* PopulateDirectoryMap), the text MapToCamliJSON returns has "camliVersion"
\* as its first key and "camliType" as its second.
C6_VersionThenType ==
    (call.op = "MapToCamliJSON" /\ call.err = ErrNil /\ origin \in Builders) =>
        /\ NumTopLevelKeys(call.out) >= 2
        /\ TopLevelKey(call.out, 1) = "camliVersion"
        /\ TopLevelKey(call.out, 2) = "camliType"

IsPrefix(s, t) == Len(s) <= Len(t) /\ SubSeq(t, 1, Len(s)) = s

\* How often x occurs in the sequence s.
Occurrences(s, x) == Cardinality({i \in 1..Len(s) : s[i] = x})

\* C7: a Map() called after all N concurrent Adds of distinct references have
\* returned yields exactly N members, each added reference exactly once.
C7_NoLostAdd ==
    \A i \in 1..Len(mapLog) :
        mapLog[i].afterAll =>
            /\ Len(mapLog[i].m["members"]) = NumAdders
            /\ \A a \in Adders :
                  Occurrences(mapLog[i].m["members"], BlobRefString(AdderRef(a))) = 1

\* A Map called after every Add returned, the adders having taken the mutex
\* in another order than their own.
C7_Witness ==
    /\ \E i \in 1..Len(mapLog) : mapLog[i].afterAll
    /\ Len(acquired) = NumAdders
    /\ acquired[1] # 1

\* C8: the members a Map() returns are the references whose Add completed
\* its append before that Map took the mutex, in mutex-acquisition order; an
\* earlier Map's result is a prefix of a later Map's; Map leaves the set as
\* it found it.
C8_MapIsAtomicSnapshot ==
    /\ \A i \in 1..Len(mapLog) :
          /\ mapLog[i].m["members"] = RefStrings(mapLog[i].appended)
          /\ mapLog[i].refsAtReturn = mapLog[i].refsAtLock
    /\ \A i, j \in 1..Len(mapLog) :
          i < j => IsPrefix(mapLog[i].m["members"], mapLog[j].m["members"])

\* Two Maps returned, the first with some members, the second with more,
\* and the first was taken while an Add was still waiting.
C8_Witness ==
    /\ Len(mapLog) = 2
    /\ Len(mapLog[1].m["members"]) > 0
    /\ ~mapLog[1].afterAll
    /\ Len(mapLog[2].m["members"]) > Len(mapLog[1].m["members"])

\* C9: NewDirectoryEntry returns an entry exactly when the Superset is
\* non-nil, its BlobRef is non-nil and its Type is "file", "directory" or
\* "symlink"; otherwise it returns a nil entry and a non-nil error.
C9_EntryIffValid ==
    ret.op = "NewDirectoryEntry" =>
        /\ ~de.isNil <=> /\ ~ret.ssIsNil
                         /\ ret.arg.BlobRef # NilRef
                         /\ ret.arg.Type \in {"file", "directory", "symlink"}
        /\ de.isNil <=> (ret.err # ErrNil)

\* A Superset of Type "file" with a nil BlobRef was refused.
C9_Witness ==
    /\ ret.op = "NewDirectoryEntry"
    /\ ~ret.ssIsNil
    /\ ret.arg.Type = "file"
    /\ ret.arg.BlobRef = NilRef
    /\ de.isNil
    /\ ret.err # ErrNil

\* C10: after NewDirectoryEntry succeeded, whatever the caller does to its
\* own Superset, CamliType(), FileName() and BlobRef() keep returning the
\* values they had at construction.
C10_EntryViewStable ==
    /\ ret.op = "CamliType" => ret.type = atNew.type
    /\ ret.op = "FileName" => ret.name = atNew.name
    /\ ret.op = "BlobRef" => ret.ref = atNew.ref

\* The calls that returned, as a set of positions in done.
Returns == 1..Len(done)

\* C11: once a call of File() on an entry has succeeded, every later call
\* made after it returns the same reader with a nil error and does not
\* call NewFileReader again; likewise Directory() and NewDirReader.
C11_CachedReaderReused ==
    \A i, j \in Returns :
        (/\ i < j
         /\ done[i].op \in {"File", "Directory"}
         /\ done[j].op = done[i].op
         /\ done[i].err = ErrNil)
        => /\ done[j].err = ErrNil
           /\ done[j].val = done[i].val
           /\ ~done[j].val.nil
           /\ done[j].post.made = done[j].pre.made

C11_Witness ==
    \E i, j \in Returns :
        /\ i < j
        /\ done[i].op = "Directory"
        /\ done[j].op = "Directory"
        /\ done[i].err = ErrNil
        /\ done[j].err = ErrNil
        /\ done[j].pre.made.Directory.calls = 1

C13_OneReaderPerEntry ==
    /\ made.File.readers <= 1
    /\ made.Directory.readers <= 1
    /\ \A i, j \in Returns :
          (done[i].op = done[j].op /\ done[i].err = ErrNil /\ done[j].err = ErrNil)
          => done[i].val = done[j].val

\* C14: the map NewDelAttributeClaim returns has claimType "del-attribute"
\* and the attribute given and no key "value"; the maps of
\* NewSetAttributeClaim and NewAddAttributeClaim carry under "value" the
\* value given, also when it is the empty string.
C14_DelHasNoValue ==
    fn = "AttributeClaims" =>
        /\ result.del["claimType"] = "del-attribute"
        /\ result.del["attribute"] = args.attr
        /\ ~HasKey(result.del, "value")
        /\ result.set["claimType"] = "set-attribute"
        /\ result.add["claimType"] = "add-attribute"
        /\ \A c \in {result.set, result.add} :
              /\ HasKey(c, "value")
              /\ c["value"] = args.value
              /\ c["attribute"] = args.attr

C14_Witness ==
    /\ fn = "AttributeClaims"
    /\ args.value = ""
    /\ HasKey(result.set, "value")
    /\ HasKey(result.del, "attribute")

\* The number a base64 character stands for.
Base64Index(ch) == CHOOSE i \in 0..63 : Base64Char(i) = ch

\* The bytes an unpadded run of four base64 characters stands for.
RECURSIVE Base64DecodeGroups(_)
Base64DecodeGroups(text) ==
    IF Len(text) < 4 THEN <<>>
    ELSE LET a == Base64Index(CharAt(text, 1))
             b == Base64Index(CharAt(text, 2))
             c == Base64Index(CharAt(text, 3))
             d == Base64Index(CharAt(text, 4))
         IN  <<a * 4 + b \div 16, (b % 16) * 16 + c \div 4, (c % 4) * 64 + d>>
                 \o Base64DecodeGroups(SubSeq(text, 5, Len(text)))

\* C15: NewUnsignedPermanode panics, and returns no map, when the random
\* source fails or delivers fewer than 20 bytes; otherwise its map has
\* camliVersion 1, camliType "permanode" and under "random" the base64
\* text of exactly the 20 bytes read.
C15_RandomIsTwentyBytesRead ==
    fn = "NewUnsignedPermanode" =>
        /\ result.panic <=> Len(args.src) < 20
        /\ result.panic => result.m = EmptyMap
        /\ ~result.panic =>
              /\ DOMAIN result.m = {"camliVersion", "camliType", "random"}
              /\ result.m["camliVersion"] = 1
              /\ result.m["camliType"] = "permanode"
              /\ Len(result.m["random"]) = 28
              /\ SubSeq(result.m["random"], 28, 28) = "="
              /\ Base64DecodeGroups(SubSeq(result.m["random"], 1, 24)
                                    \o SubSeq(result.m["random"], 25, 27) \o "A")
                     = SubSeq(args.src, 1, 20) \o <<0>>

C15_Witness ==
    /\ fn = "NewUnsignedPermanode"
    /\ ~result.panic
    /\ Len(args.src) = 20
    /\ args.src[20] = (20 * 13) % 256

\* What one element of a mixed array stands for: the bytes of its string,
\* or the one byte of its number.
ElemBytes(e) == IF e.kind = "string" THEN e.str ELSE <<e.num>>

\* Whether bytes is the concatenation of what the elements stand for.
RECURSIVE IsConcatOf(_, _)
IsConcatOf(bytes, elems) ==
    IF elems = <<>> THEN bytes = <<>>
    ELSE LET first == ElemBytes(elems[1])
         IN  /\ IsPrefix(first, bytes)
             /\ IsConcatOf(SubSeq(bytes, Len(first) + 1, Len(bytes)), Tail(elems))

\* C16: FileNameString and SymlinkTargetString return the plain string
\* field when it is non-empty, and otherwise the bytes put together from the
\* array, each element giving the bytes of its one-character string or the
\* one byte of its number, in order; ["H", "i"] gives "Hi".
C16_PlainStringElseBytes ==
    fn = "NameStrings" =>
        \A r \in {result.fileName, result.symlinkTarget} :
            /\ args.plain # <<>> => r = args.plain
            /\ args.plain = <<>> => IsConcatOf(r, args.elems)
            /\ (args.plain = <<>> /\ args.elems = <<StrElem(<<72>>), StrElem(<<105>>)>>)
                   => r = <<72, 105>>

C16_Witness ==
    /\ fn = "NameStrings"
    /\ args.plain = <<>>
    /\ args.elems = <<StrElem(<<72>>), NumElem(255), StrElem(<<195, 169>>)>>
    /\ result.fileName = <<72, 255, 195, 169>>
    /\ result.symlinkTarget = <<72, 255, 195, 169>>

\* C17: for every instant an int64 of nanoseconds can hold, also one before
\* 1970 and one with a fraction of a second such as 500,000,000 ns,
\* RFC3339FromTime gives a text in UTC that has a fraction exactly when the
\* instant has one, and NanosFromRFC3339 of that text is t.UnixNano().
C17_TimestampRoundTrip ==
    fn = "Timestamps" =>
        /\ CharAt(result.text, Len(result.text)) = "Z"
        /\ (\E i \in 1..Len(result.text) : CharAt(result.text, i) = ".")
               <=> args.instant.nsec # 0
        /\ result.nanos = args.instant

C17_Witness ==
    /\ fn = "Timestamps"
    /\ args.instant = Nanos(-25567, 79265, 500000000)
    /\ result.text = "1900-01-01T22:01:05.5Z"
    /\ result.nanos = args.instant

\* The entries that a sequence of Readdir results handed out, in order.
RECURSIVE HandedOut(_)
HandedOut(results) ==
    IF results = <<>> THEN <<>>
    ELSE HandedOut(SubSeq(results, 1, Len(results) - 1))
             \o results[Len(results)].entries

\* C18: Readdir pages through the directory without loss or repetition.
\* With count > 0 a call returns at most count entries, those at the cursor,
\* and moves the cursor past them; when none remain it returns no entry and
\* EOF.  With count <= 0 a call returns all remaining entries and a nil
\* error, also when none remain.  On 5 entries Readdir(0) returns 5 and
\* nil, and Readdir(2) called again and again returns 2, 2, 1, then 0 and EOF.
C18_ReaddirPages ==
    fn = "Readdir" =>
        /\ HandedOut(result) = SubSeq(obj.entries, 1, obj.current)
        /\ \A i \in 1..Len(args) :
              LET a == args[i]
                  r == result[i]
                  remaining == Len(obj.entries) - a.current
                  after == IF i < Len(args) THEN args[i + 1].current ELSE obj.current
              IN  /\ r.entries = SubSeq(obj.entries, a.current + 1,
                                        a.current + Len(r.entries))
                  /\ after = a.current + Len(r.entries)
                  /\ a.count > 0 =>
                        /\ Len(r.entries) <= a.count
                        /\ remaining = 0 => (r.entries = <<>> /\ r.err = EOF)
                        /\ remaining > 0 => (r.entries # <<>> /\ r.err = ErrNil)
                  /\ a.count <= 0 =>
                        /\ Len(r.entries) = remaining
                        /\ r.err = ErrNil
        /\ (Len(obj.entries) = 5 /\ args[1] = [count |-> 0, current |-> 0])
              => (Len(result[1].entries) = 5 /\ result[1].err = ErrNil)
        /\ (Len(obj.entries) = 5 /\ \A i \in 1..Len(args) : args[i].count = 2)
              => \A i \in 1..Len(args) :
                    /\ Len(result[i].entries) = (IF i <= 3 THEN <<2, 2, 1>>[i] ELSE 0)
                    /\ result[i].err = (IF i <= 3 THEN ErrNil ELSE EOF)

C18_Witness ==
    /\ fn = "Readdir"
    /\ Len(obj.entries) = 5
    /\ Len(args) = 4
    /\ \A i \in 1..4 : args[i].count = 2
    /\ result[3].entries = <<5>>
    /\ result[4] = [entries |-> <<>>, err |-> EOF]

\* The parts of a file put one after the other.
RECURSIVE Concatenation(_)
Concatenation(parts) ==
    IF parts = <<>> THEN <<>> ELSE Head(parts) \o Concatenation(Tail(parts))

\* C19: a File is one continuous stream.  After any sequence of Read and
\* Skip calls every Read delivered the bytes of the concatenation of the
\* parts that start at the cursor, every call moved the cursor by the number
\* of bytes read or skipped, and Skip(n) returned the smaller of n and the
\* number of bytes remaining.  With the parts "abc" and "defg" a Read
\* yields "abcdefg", and Skip(4) followed by a Read yields "efg".
C19_FileIsOneStream ==
    fn \in {"Read", "Skip"} =>
        LET content == Concatenation(obj.parts)
        IN  /\ \A i \in 1..Len(args) :
                  LET a == args[i]
                      r == result[i]
                      after == IF i < Len(args) THEN args[i + 1].cursor ELSE Cursor(obj)
                  IN  /\ r.n = Min(a.n, Len(content) - a.cursor)
                      /\ after = a.cursor + r.n
                      /\ a.op = "Read" =>
                            r.bytes = SubSeq(content, a.cursor + 1, a.cursor + r.n)
            /\ (content = <<97, 98, 99, 100, 101, 102, 103>>
                   /\ args[1].op = "Read" /\ args[1].n = 7)
                  => result[1].bytes = content
            /\ (content = <<97, 98, 99, 100, 101, 102, 103>> /\ Len(args) >= 2
                   /\ args[1].op = "Skip" /\ args[1].n = 4
                   /\ args[2].op = "Read" /\ args[2].n >= 3)
                  => result[2].bytes = <<101, 102, 103>>

C19_Witness ==
    /\ fn = "Skip"
    /\ Len(args) = 3
    /\ args[1] = [op |-> "Skip", n |-> 4, cursor |-> 0]
    /\ args[2] = [op |-> "Read", n |-> 7, cursor |-> 4]
    /\ result[2].bytes = <<101, 102, 103>>
    /\ args[3].op = "Skip"
    /\ args[3].n = 9
    /\ result[3].n = 0

\* C20: a file name, valid UTF-8 or not, written by NewFileMap and
\* MapToCamliJSON and decoded into a Superset comes back from
\* FileNameString as the base name of the name written, byte for byte; the
\* "fileNameBytes" value written is one the Superset's field decodes.
C20_FileNameRoundTrip ==
    fn = "FileNameRoundTrip" =>
        /\ result.err = ErrNil
        /\ result.name = FilepathBase(args.name)

\* C21: MapToCamliJSON leaves its map as it was on every return path: with
\* the JSON text, with ErrNoCamliVersion and with an error of the
\* marshaller the map holds the keys and values it held before the call,
\* "camliVersion" with its value among them.
C21_MapUnchanged ==
    call.op = "MapToCamliJSON" =>
        /\ m = call.pre
        /\ HasKey(call.pre, "camliVersion") =>
              (HasKey(m, "camliVersion") /\ m["camliVersion"] = call.pre["camliVersion"])

\* How often the character ch occurs in text.
CountChar(text, ch) == Cardinality({i \in 1..Len(text) : CharAt(text, i) = ch})

\* Whether text has the outline of one JSON object: it opens with a brace
\* and closes with one, braces and brackets are balanced, every key line
\* but the last ends in a comma, and no comma stands before a closing brace.
WellFormedObject(text) ==
    /\ Len(text) >= 2
    /\ CharAt(text, 1) = "{"
    /\ CharAt(text, Len(text)) = "}"
    /\ CountChar(text, "{") = CountChar(text, "}")
    /\ CountChar(text, "[") = CountChar(text, "]")
    /\ \A i \in 1..(Len(text) - 2) : SubSeq(text, i, i + 2) # ",\n}"
    /\ \A p \in KeyStarts(text) :
          (\E q \in KeyStarts(text) : q > p) =>
              \E i \in p..(Len(text) - 4) :
                  /\ SubSeq(text, i, i + 4) = ",\n  \""
                  /\ i + 5 = (CHOOSE q \in KeyStarts(text) :
                                 q > p /\ \A r \in KeyStarts(text) : r > p => q <= r)

\* C22: for every map with "camliVersion" that the marshaller accepts, the
\* text MapToCamliJSON returns is one well-formed JSON object that starts
\* with "camliVersion", also for the map that holds "camliVersion" only.
C22_WellFormedJSON ==
    (call.op = "MapToCamliJSON" /\ call.err = ErrNil) =>
        /\ WellFormedObject(call.out)
        /\ TopLevelKey(call.out, 1) = "camliVersion"
        /\ NumTopLevelKeys(call.out) = Cardinality(DOMAIN call.pre)

\* C23: NanosFromRFC3339 returns -1 only for a text that does not parse:
\* the text RFC3339FromTime writes for an instant never yields -1.
C23_MinusOneOnlyOnFailure ==
    fn = "Timestamps" => result.nanos # MinusOne

====
